---------------------------- MODULE Spec2Model ----------------------------
(***************************************************************************)
(* Order assistant (src/view.py): the record resolution / mutation engine  *)
(* over the customers and orders collections, and the tool-calling         *)
(* orchestration loop chat_step that drives it.                            *)
(*                                                                         *)
(* Strings are sequences of one-character strings, so that strip() and     *)
(* lower() are computed.  Texts built with f-strings and join() are        *)
(* sequences of text pieces.  Customer and order ids (uuid4 in the code)   *)
(* are numbers; 0 is "no id".                                              *)
(***************************************************************************)
EXTENDS Integers, Sequences, FiniteSets, TLC

\* ------------------------------------------------------------------ bounds
MaxCustomers == 2
MaxOrders == 1
MaxItems == 2
MaxCalls == 2
MaxTurns == 1
MaxQty == 4

\* ------------------------------------------------------------ value domain
NoId == 0
None == <<"None">>
CustIds == 1..MaxCustomers
OrderIds == 1..MaxOrders
Skus == {"003", "007"}

RawNames == {None, <<" ">>, <<"n">>}
RawEmails == {None, <<"a">>, <<" ", "A">>}
RawAddresses == {None, <<"x">>}

\* ------------------------------------------------------- python primitives
\* (v or "")
OrEmpty(v) == IF v = None THEN <<>> ELSE v

\* truthiness of an optional string
Truthy(v) == v # None /\ v # <<>>

RECURSIVE LStrip(_)
LStrip(s) == IF s = <<>> THEN s
             ELSE IF Head(s) = " " THEN LStrip(Tail(s)) ELSE s

RECURSIVE RStrip(_)
RStrip(s) == IF s = <<>> THEN s
             ELSE IF s[Len(s)] = " " THEN RStrip(SubSeq(s, 1, Len(s) - 1)) ELSE s

\* str.strip()
Strip(s) == RStrip(LStrip(s))

LowerChar(c) == IF c = "A" THEN "a" ELSE IF c = "B" THEN "b" ELSE c

\* str.lower()
Lower(s) == [i \in 1..Len(s) |-> LowerChar(s[i])]

\* first key of a non-empty set of record keys, in the store's key order
FirstKey(S) == CHOOSE c \in S : \A d \in S : c <= d

\* ------------------------------------------------------------------- state
VARIABLES
    customers,   \* customers collection: id -> [name, email, address]
    orders,      \* orders collection: id -> [customer_id, status, items, shipping_address]
    last,        \* the last tool invocation run against the store, and its result
    prev,        \* the invocation before it (tool, normalized email, customer)
    procs,       \* concurrent find_or_create_customer calls: their locals and position
    SESSIONS,    \* session_id -> message log
    turns        \* chat requests: the locals and position of each chat_step

vars == <<customers, orders, last, prev, procs, SESSIONS, turns>>
storeVars == <<customers, orders>>
callVars == <<last, prev>>
chatVars == <<SESSIONS, turns>>

\* ------------------------------------------------------ customer resolution
get_customer_by_id(cs, customer_id) ==
    IF customer_id \in DOMAIN cs THEN customer_id ELSE NoId

\* order_by_child("email").equal_to(norm_email).get(); the query raises when
\* the store has no index (indexed = FALSE) and snap is then None
EmailQuery(cs, norm_email, indexed) ==
    LET snap == IF indexed
                THEN {c \in DOMAIN cs : cs[c].email = norm_email}
                ELSE {}
    IN  IF snap # {} THEN FirstKey(snap) ELSE NoId

\* the fallback scan of all customers
EmailScan(cs, norm_email) ==
    LET hit == {c \in DOMAIN cs : Lower(Strip(OrEmpty(cs[c].email))) = norm_email}
    IN  IF hit # {} THEN FirstKey(hit) ELSE NoId

\* mutant of find_customer_by_email: no scan when the query finds nothing
find_customer_by_email_QueryOnly(cs, email, indexed) ==
    LET norm_email == Lower(Strip(OrEmpty(email)))
        snap == EmailQuery(cs, norm_email, indexed)
    IN  IF norm_email = <<>> THEN NoId
        ELSE snap

find_customer_by_email(cs, email, indexed) ==
    LET norm_email == Lower(Strip(OrEmpty(email)))
        snap == EmailQuery(cs, norm_email, indexed)
    IN  IF norm_email = <<>> THEN NoId
        ELSE IF snap # NoId THEN snap
        ELSE EmailScan(cs, norm_email)

find_customer_by_name_address(cs, name, address) ==
    LET hit == {c \in DOMAIN cs : cs[c].name = name /\ cs[c].address = address}
    IN  IF hit # {} THEN FirstKey(hit) ELSE NoId

\* a write that keeps emails unique: it leaves the store alone when a record
\* already carries the email
SetCustomer_UniqueEmail(cs, cid, cust_obj) ==
    IF cust_obj.email # <<>> /\ \E c \in DOMAIN cs : cs[c].email = cust_obj.email
    THEN cs
    ELSE [c \in DOMAIN cs \cup {cid} |-> IF c = cid THEN cust_obj ELSE cs[c]]

\* customers_ref().child(cid).set(cust_obj)
SetCustomer(cs, cid, cust_obj) ==
    [c \in DOMAIN cs \cup {cid} |-> IF c = cid THEN cust_obj ELSE cs[c]]

\* find_or_create_customer with the email only trimmed, not lowercased
find_or_create_customer_CaseSensitive(cs, name, email, address, cid, indexed) ==
    LET norm_name == Strip(OrEmpty(name))
        norm_email == Strip(OrEmpty(email))
        norm_address == Strip(OrEmpty(address))
        byEmail == IF norm_email # <<>>
                   THEN {c \in DOMAIN cs : cs[c].email = norm_email}
                   ELSE {}
        byNameAddr == IF byEmail = {} /\ norm_name # <<>> /\ norm_address # <<>>
                      THEN {c \in DOMAIN cs : cs[c].name = norm_name
                                               /\ cs[c].address = norm_address}
                      ELSE byEmail
        cust_obj == [name |-> norm_name, email |-> norm_email, address |-> norm_address]
    IN  IF byNameAddr # {}
        THEN [ok |-> TRUE, error |-> <<>>, customer |-> FirstKey(byNameAddr),
              customers |-> cs, created |-> FALSE]
        ELSE IF norm_name # <<>> \/ norm_email # <<>>
        THEN [ok |-> TRUE, error |-> <<>>, customer |-> cid,
              customers |-> SetCustomer(cs, cid, cust_obj),
              created |-> TRUE]
        ELSE [ok |-> FALSE,
              error |-> <<"Cannot resolve customer. Provide at least name or email.">>,
              customer |-> NoId, customers |-> cs, created |-> FALSE]

\* find_or_create_customer that looks up by name and address before email
find_or_create_customer_NameFirst(cs, name, email, address, cid, indexed) ==
    LET norm_name == Strip(OrEmpty(name))
        norm_email == Lower(Strip(OrEmpty(email)))
        norm_address == Strip(OrEmpty(address))
        byNameAddr == IF norm_name # <<>> /\ norm_address # <<>>
                      THEN find_customer_by_name_address(cs, norm_name, norm_address)
                      ELSE NoId
        byEmail == IF byNameAddr = NoId /\ norm_email # <<>>
                   THEN find_customer_by_email(cs, norm_email, indexed)
                   ELSE byNameAddr
        cust_obj == [name |-> norm_name, email |-> norm_email, address |-> norm_address]
    IN  IF byEmail # NoId
        THEN [ok |-> TRUE, error |-> <<>>, customer |-> byEmail,
              customers |-> cs, created |-> FALSE]
        ELSE IF norm_name # <<>> \/ norm_email # <<>>
        THEN [ok |-> TRUE, error |-> <<>>, customer |-> cid,
              customers |-> SetCustomer(cs, cid, cust_obj),
              created |-> TRUE]
        ELSE [ok |-> FALSE,
              error |-> <<"Cannot resolve customer. Provide at least name or email.">>,
              customer |-> NoId, customers |-> cs, created |-> FALSE]

\* find_or_create_customer that also creates a record from an address alone
find_or_create_customer_AddressOnly(cs, name, email, address, cid, indexed) ==
    LET norm_name == Strip(OrEmpty(name))
        norm_email == Lower(Strip(OrEmpty(email)))
        norm_address == Strip(OrEmpty(address))
        byEmail == IF norm_email # <<>>
                   THEN find_customer_by_email(cs, norm_email, indexed)
                   ELSE NoId
        byNameAddr == IF byEmail = NoId /\ norm_name # <<>> /\ norm_address # <<>>
                      THEN find_customer_by_name_address(cs, norm_name, norm_address)
                      ELSE byEmail
        cust_obj == [name |-> norm_name, email |-> norm_email, address |-> norm_address]
    IN  IF byNameAddr # NoId
        THEN [ok |-> TRUE, error |-> <<>>, customer |-> byNameAddr,
              customers |-> cs, created |-> FALSE]
        ELSE IF norm_name # <<>> \/ norm_email # <<>> \/ norm_address # <<>>
        THEN [ok |-> TRUE, error |-> <<>>, customer |-> cid,
              customers |-> SetCustomer(cs, cid, cust_obj),
              created |-> TRUE]
        ELSE [ok |-> FALSE,
              error |-> <<"Cannot resolve customer. Provide at least name or email.">>,
              customer |-> NoId, customers |-> cs, created |-> FALSE]

\* cid is the uuid4 drawn for a new record; indexed tells whether the store
\* answers the indexed email query.
find_or_create_customer(cs, name, email, address, cid, indexed) ==
    LET norm_name == Strip(OrEmpty(name))
        norm_email == Lower(Strip(OrEmpty(email)))
        norm_address == Strip(OrEmpty(address))
        byEmail == IF norm_email # <<>>
                   THEN find_customer_by_email(cs, norm_email, indexed)
                   ELSE NoId
        byNameAddr == IF byEmail = NoId /\ norm_name # <<>> /\ norm_address # <<>>
                      THEN find_customer_by_name_address(cs, norm_name, norm_address)
                      ELSE byEmail
        cust_obj == [name |-> norm_name, email |-> norm_email, address |-> norm_address]
    IN  IF byNameAddr # NoId
        THEN [ok |-> TRUE, error |-> <<>>, customer |-> byNameAddr,
              customers |-> cs, created |-> FALSE]
        ELSE IF norm_name # <<>> \/ norm_email # <<>>
        THEN [ok |-> TRUE, error |-> <<>>, customer |-> cid,
              customers |-> SetCustomer(cs, cid, cust_obj),
              created |-> TRUE]
        ELSE [ok |-> FALSE,
              error |-> <<"Cannot resolve customer. Provide at least name or email.">>,
              customer |-> NoId, customers |-> cs, created |-> FALSE]

\* mutant of update_customer_address: the address is written whether or not
\* the customer exists
update_customer_address_Upsert(cs, customer_id, new_address) ==
    [ok |-> TRUE, error |-> <<>>, customer |-> customer_id,
     customers |-> [c \in DOMAIN cs \cup {customer_id} |->
                       IF c = customer_id
                       THEN IF c \in DOMAIN cs
                            THEN [cs[c] EXCEPT !.address = new_address]
                            ELSE [name |-> <<>>, email |-> <<>>,
                                  address |-> new_address]
                       ELSE cs[c]]]

update_customer_address(cs, customer_id, new_address) ==
    IF customer_id \notin DOMAIN cs
    THEN [ok |-> FALSE, error |-> <<"Customer not found">>, customer |-> NoId,
          customers |-> cs]
    ELSE [ok |-> TRUE, error |-> <<>>, customer |-> customer_id,
          customers |-> [cs EXCEPT ![customer_id].address = new_address]]


\* ------------------------------------------------------------ order engine
\* A python dict {sku: quantity} is a sequence of [sku, quantity] entries with
\* distinct skus, in insertion order.
DictHas(d, k) == \E i \in 1..Len(d) : d[i].sku = k

DictGet(d, k, default) ==
    IF DictHas(d, k)
    THEN d[CHOOSE i \in 1..Len(d) : d[i].sku = k].quantity
    ELSE default

DictSet(d, k, v) ==
    IF DictHas(d, k)
    THEN [i \in 1..Len(d) |-> IF d[i].sku = k THEN [sku |-> k, quantity |-> v] ELSE d[i]]
    ELSE Append(d, [sku |-> k, quantity |-> v])

DictPop(d, k) == SelectSeq(d, LAMBDA e : e.sku # k)

\* {i["sku"]: int(i["quantity"]) for i in items}
RECURSIVE DictOfItems(_, _)
DictOfItems(d, items) ==
    IF items = <<>> THEN d
    ELSE DictOfItems(DictSet(d, Head(items).sku, Head(items).quantity), Tail(items))

\* ApplyAdds that sets the added quantity instead of incrementing
RECURSIVE ApplyAdds_Overwrite(_, _)
ApplyAdds_Overwrite(current_items, add_items) ==
    IF add_items = <<>> THEN current_items
    ELSE ApplyAdds_Overwrite(DictSet(current_items, Head(add_items).sku,
                                     Head(add_items).quantity),
                             Tail(add_items))

RECURSIVE ApplyAdds(_, _)
ApplyAdds(current_items, add_items) ==
    IF add_items = <<>> THEN current_items
    ELSE LET sku == Head(add_items).sku
             qty == Head(add_items).quantity
         IN  ApplyAdds(DictSet(current_items, sku, DictGet(current_items, sku, 0) + qty),
                       Tail(add_items))

ApplyRemoves(current_items, remove_items) ==
    SelectSeq(current_items, LAMBDA e : e.sku \notin remove_items)

\* mutant of ApplyUpdates: only a negative quantity removes the item
RECURSIVE ApplyUpdates_KeepZero(_, _)
ApplyUpdates_KeepZero(current_items, updates) ==
    IF updates = <<>> THEN current_items
    ELSE LET sku == Head(updates).sku
             qty == Head(updates).quantity
         IN  ApplyUpdates_KeepZero(IF qty < 0 THEN DictPop(current_items, sku)
                                   ELSE DictSet(current_items, sku, qty),
                                   Tail(updates))

RECURSIVE ApplyUpdates(_, _)
ApplyUpdates(current_items, updates) ==
    IF updates = <<>> THEN current_items
    ELSE LET sku == Head(updates).sku
             qty == Head(updates).quantity
         IN  ApplyUpdates(IF qty <= 0 THEN DictPop(current_items, sku)
                          ELSE DictSet(current_items, sku, qty),
                          Tail(updates))

\* mutant of create_order: a missing shipping address stays empty
create_order_NoDefault(cs, os, customer_id, items, shipping_address, oid) ==
    LET addr == IF shipping_address = None THEN <<>> ELSE shipping_address
        order_doc == [customer_id |-> customer_id, status |-> "PLACED",
                      items |-> items, shipping_address |-> OrEmpty(addr)]
    IN  IF items = <<>>
        THEN [ok |-> FALSE, error |-> <<"Items cannot be empty.">>,
              order |-> NoId, orders |-> os]
        ELSE [ok |-> TRUE, error |-> <<>>, order |-> oid,
              orders |-> [o \in DOMAIN os \cup {oid} |->
                             IF o = oid THEN order_doc ELSE os[o]]]

\* create_order without the check of the item list
create_order_NoCheck(cs, os, customer_id, items, shipping_address, oid) ==
    LET cust == get_customer_by_id(cs, customer_id)
        addr == IF shipping_address = None
                THEN (IF cust = NoId THEN <<>> ELSE cs[cust].address)
                ELSE shipping_address
        order_doc == [customer_id |-> customer_id, status |-> "PLACED",
                      items |-> items, shipping_address |-> OrEmpty(addr)]
    IN  [ok |-> TRUE, error |-> <<>>, order |-> oid,
         orders |-> [o \in DOMAIN os \cup {oid} |->
                        IF o = oid THEN order_doc ELSE os[o]]]

\* oid is the uuid4 drawn for the new order
create_order(cs, os, customer_id, items, shipping_address, oid) ==
    LET cust == get_customer_by_id(cs, customer_id)
        addr == IF shipping_address = None
                THEN (IF cust = NoId THEN <<>> ELSE cs[cust].address)
                ELSE shipping_address
        order_doc == [customer_id |-> customer_id, status |-> "PLACED",
                      items |-> items, shipping_address |-> OrEmpty(addr)]
    IN  IF items = <<>>
        THEN [ok |-> FALSE, error |-> <<"Items cannot be empty.">>,
              order |-> NoId, orders |-> os]
        ELSE [ok |-> TRUE, error |-> <<>>, order |-> oid,
              orders |-> [o \in DOMAIN os \cup {oid} |->
                             IF o = oid THEN order_doc ELSE os[o]]]

get_order(os, order_id) ==
    IF order_id \in DOMAIN os THEN order_id ELSE NoId

save_order(os, oid, order) ==
    [os EXCEPT ![oid] = [customer_id |-> order.customer_id,
                         status |-> order.status,
                         items |-> order.items,
                         shipping_address |-> order.shipping_address]]

\* -------------------------------------------------------------------- tools
\* Every tool yields [ok, error, customer, order, customers, orders]: the
\* result handed back (or the exception text), and the store it leaves.
\* A result that a tool computes once and reads several times is bound as
\* the one element of a set, which makes it a value computed once.
tool_create_customer(cs, os, args, cid, indexed) ==
    LET r == find_or_create_customer(cs, args.name, args.email, args.address, cid, indexed)
    IN  [ok |-> r.ok, error |-> r.error, customer |-> r.customer, order |-> NoId,
         customers |-> r.customers, orders |-> os]

\* tool_place_order that files the order under the id given in the request
\* instead of the id of the resolved customer
tool_place_order_InputId(cs, os, args, cid, oid, indexed) ==
    LET customer_input == args.customer
        cust_id == customer_input.id
        byId == get_customer_by_id(cs, cust_id)
    IN  CHOOSE result \in
          { IF cust_id # NoId /\ byId = NoId
            THEN [ok |-> FALSE, error |-> <<"Customer id not found.">>,
                  customer |-> NoId, order |-> NoId, customers |-> cs, orders |-> os]
            ELSE IF cust_id = NoId /\ ~r.ok
            THEN [ok |-> FALSE, error |-> r.error, customer |-> NoId,
                  order |-> NoId, customers |-> cs, orders |-> os]
            ELSE LET customer == IF cust_id # NoId THEN byId ELSE r.customer
                     cs1 == IF cust_id # NoId THEN cs ELSE r.customers
                     o == create_order(cs1, os, cust_id, args.items,
                                       args.shipping_address, oid)
                 IN  [ok |-> o.ok, error |-> o.error, customer |-> customer,
                      order |-> o.order, customers |-> cs1, orders |-> o.orders]
            : r \in {find_or_create_customer(cs, customer_input.name,
                                             customer_input.email,
                                             customer_input.address, cid, indexed)} }
          : TRUE

tool_place_order(cs, os, args, cid, oid, indexed) ==
    LET customer_input == args.customer
        cust_id == customer_input.id
        byId == get_customer_by_id(cs, cust_id)
    IN  CHOOSE result \in
          { IF cust_id # NoId /\ byId = NoId
            THEN [ok |-> FALSE, error |-> <<"Customer id not found.">>,
                  customer |-> NoId, order |-> NoId, customers |-> cs, orders |-> os]
            ELSE IF cust_id = NoId /\ ~r.ok
            THEN [ok |-> FALSE, error |-> r.error, customer |-> NoId,
                  order |-> NoId, customers |-> cs, orders |-> os]
            ELSE LET customer == IF cust_id # NoId THEN byId ELSE r.customer
                     cs1 == IF cust_id # NoId THEN cs ELSE r.customers
                     o == create_order(cs1, os, customer, args.items,
                                       args.shipping_address, oid)
                 IN  [ok |-> o.ok, error |-> o.error, customer |-> customer,
                      order |-> o.order, customers |-> cs1, orders |-> o.orders]
            : r \in {find_or_create_customer(cs, customer_input.name,
                                             customer_input.email,
                                             customer_input.address, cid, indexed)} }
          : TRUE

\* tool_modify_order that applies the removals after the quantity updates
tool_modify_order_RemoveLast(cs, os, args) ==
    LET order_id == args.order_id
        found == get_order(os, order_id)
    IN  IF found = NoId
        THEN [ok |-> FALSE, error |-> <<"Order not found">>, customer |-> NoId,
              order |-> NoId, customers |-> cs, orders |-> os]
        ELSE LET order == os[found]
                 current_items == DictOfItems(<<>>, order.items)
                 added == ApplyAdds(current_items, args.add_items)
                 updated == ApplyUpdates(added, args.update_quantities)
                 removed == ApplyRemoves(updated, args.remove_items)
                 order1 == [order EXCEPT !.items = removed,
                               !.shipping_address =
                                   IF Truthy(args.new_shipping_address)
                                   THEN args.new_shipping_address
                                   ELSE order.shipping_address]
             IN  [ok |-> TRUE, error |-> <<>>, customer |-> order.customer_id,
                  order |-> found, customers |-> cs,
                  orders |-> save_order(os, found, order1)]

tool_modify_order(cs, os, args) ==
    LET order_id == args.order_id
        found == get_order(os, order_id)
    IN  IF found = NoId
        THEN [ok |-> FALSE, error |-> <<"Order not found">>, customer |-> NoId,
              order |-> NoId, customers |-> cs, orders |-> os]
        ELSE LET order == os[found]
                 current_items == DictOfItems(<<>>, order.items)
                 added == ApplyAdds(current_items, args.add_items)
                 removed == ApplyRemoves(added, args.remove_items)
                 updated == ApplyUpdates(removed, args.update_quantities)
                 order1 == [order EXCEPT !.items = updated,
                               !.shipping_address =
                                   IF Truthy(args.new_shipping_address)
                                   THEN args.new_shipping_address
                                   ELSE order.shipping_address]
             IN  [ok |-> TRUE, error |-> <<>>, customer |-> order.customer_id,
                  order |-> found, customers |-> cs,
                  orders |-> save_order(os, found, order1)]

tool_update_customer_address(cs, os, args) ==
    LET r == update_customer_address(cs, args.customer_id, args.new_address)
    IN  [ok |-> r.ok, error |-> r.error, customer |-> r.customer, order |-> NoId,
         customers |-> r.customers, orders |-> os]

tool_get_order_status(cs, os, args) ==
    LET found == get_order(os, args.order_id)
    IN  IF found = NoId
        THEN [ok |-> FALSE, error |-> <<"Order not found">>, customer |-> NoId,
              order |-> NoId, customers |-> cs, orders |-> os]
        ELSE [ok |-> TRUE, error |-> <<>>, customer |-> os[found].customer_id,
              order |-> found, customers |-> cs, orders |-> os]

\* ------------------------------------------------- inputs of the tool calls
SeqsUpTo(S, n) == UNION {[1..k -> S] : k \in 0..n}

\* The uuid4 of a new record.  Records are matched by field value and read by
\* key, never told apart by the order of their keys, so the next unused id
\* stands for any fresh uuid4 (NoId when the bound on the number of records is
\* reached; a call that would create a record is then not taken).
NewCustId(cs) == IF CustIds \subseteq DOMAIN cs THEN NoId
                 ELSE FirstKey(CustIds \ DOMAIN cs)

NewOrderId(os) == IF OrderIds \subseteq DOMAIN os THEN NoId
                  ELSE FirstKey(OrderIds \ DOMAIN os)

CustomerArgs == [name : RawNames, email : RawEmails, address : RawAddresses]

\* create_customer with a second email at hand
ResolveArgs == [name : {<<" ">>, <<"n">>}, email : RawEmails \cup {<<"b">>},
                address : RawAddresses]

AddressArgs == [customer_id : CustIds, new_address : {<<"y">>}]

\* place_order: a customer by id or by description
CustomerInputs ==
    [id : {NoId}, name : RawNames, email : {None, <<" ", "A">>}, address : RawAddresses]
    \cup [id : CustIds, name : {None}, email : {None}, address : {None}]

Scenario1Items == <<[sku |-> "007", quantity |-> 2]>>

PlaceArgs == [customer : CustomerInputs,
              items : {<<>>, Scenario1Items},
              shipping_address : {None, <<"z">>}]

\* the orders that deltas are applied to, and the deltas
Alice == [id |-> NoId, name |-> <<"n">>, email |-> <<"a">>, address |-> <<"x">>]
StoredEntries == [sku : Skus, quantity : {2}]
AddEntries == [sku : Skus, quantity : {1}]
UpdEntries == [sku : Skus, quantity : {-1, 0, 3}]

DeltaPlaceArgs == [customer : {Alice},
                   items : SeqsUpTo(StoredEntries, MaxItems) \ {<<>>},
                   shipping_address : {None}]

Deltas == [order_id : OrderIds,
           add_items : SeqsUpTo(AddEntries, MaxItems),
           remove_items : SUBSET Skus,
           update_quantities : SeqsUpTo(UpdEntries, MaxItems),
           new_shipping_address : {None, <<"z">>}]

\* ------------------------------------------------ sequential tool invocations
\* last and prev are history: the invocations a run ends with.  An invocation
\* taken with observe = FALSE leaves no record.
NoCall == [tool |-> "none", args |-> <<>>, ok |-> TRUE, error |-> <<>>,
           customer |-> NoId, order |-> NoId,
           new_customers |-> {}, new_orders |-> {},
           customers_before |-> <<>>, orders_before |-> <<>>]

Call(tool, args, r) ==
    [tool |-> tool, args |-> args, ok |-> r.ok, error |-> r.error,
     customer |-> r.customer, order |-> r.order,
     new_customers |-> DOMAIN r.customers \ DOMAIN customers,
     new_orders |-> DOMAIN r.orders \ DOMAIN orders,
     customers_before |-> customers, orders_before |-> orders]

\* the normalized email a customer resolution was called with
ResolutionEmail(l) ==
    IF l.tool = "create_customer"
    THEN Lower(Strip(OrEmpty(l.args.email)))
    ELSE IF l.tool = "place_order" /\ l.args.customer.id = NoId
    THEN Lower(Strip(OrEmpty(l.args.customer.email)))
    ELSE <<>>

\* what the next invocation remembers of this one
Summary(l) == [tool |-> l.tool, ok |-> l.ok, customer |-> l.customer,
               email |-> ResolutionEmail(l)]

\* the bounds on the number of records leave room for the result
Fits(r) == NoId \notin DOMAIN r.customers /\ NoId \notin DOMAIN r.orders

Procs == {1, 2}
Turns == 1..MaxTurns

\* seen and missed are history: the records in the store at the call's last
\* read, and whether its lookups ended without a match.  delta and order are
\* the arguments and the local variable order of a modify_order invocation,
\* ok its result.
IdleProc == [pc |-> "idle", name |-> <<>>, email |-> <<>>, address |-> <<>>,
             customer |-> NoId, seen |-> {}, missed |-> FALSE,
             delta |-> <<>>, order |-> <<>>, ok |-> FALSE]

\* messages is the list object the turn's local variable refers to, named by
\* the turn that created it; attached tells whether the list this turn
\* created is the one SESSIONS maps its session id to, and own holds that
\* list once SESSIONS maps the id to another one.
\* model_calls, submitted, final_tool_calls and ran are history: the number
\* of model calls of the turn, the request of each, the tool calls of the
\* summary response, and for each invocation executed its call id, the store
\* it read and the store it left
IdleTurn == [pc |-> "idle", session_id |-> "", tool_calls |-> <<>>, k |-> 0,
             tool_errors |-> <<>>, reply |-> <<>>,
             messages |-> 0, attached |-> FALSE, own |-> <<>>,
             model_calls |-> 0, submitted |-> <<>>, final_tool_calls |-> <<>>,
             ran |-> <<>>]

\* the requests served at once, and all requests
Racers == {1, 2}
TurnIds == Turns \cup Racers

Init ==
    /\ customers = <<>>
    /\ orders = <<>>
    /\ last = NoCall
    /\ prev = Summary(NoCall)
    /\ procs = [p \in Procs |-> IdleProc]
    /\ SESSIONS = <<>>
    /\ turns = [t \in TurnIds |-> IdleTurn]

CreateCustomerOf(A, O) ==
    /\ last = NoCall \/ (last.tool = "create_customer" /\ prev.tool = "none")
    /\ \E args \in A, indexed \in BOOLEAN, observe \in O :
        LET r == tool_create_customer(customers, orders, args,
                                      NewCustId(customers), indexed)
        IN  /\ last = NoCall \/ observe
            /\ Fits(r)
            /\ customers' = r.customers
            /\ orders' = r.orders
            /\ last' = IF observe THEN Call("create_customer", args, r) ELSE NoCall
            /\ prev' = Summary(last)
            /\ UNCHANGED <<procs, chatVars>>

PlaceOrderOf(A, O) ==
    /\ last = NoCall
    /\ \E args \in A, indexed \in BOOLEAN, observe \in O :
        LET r == tool_place_order(customers, orders, args, NewCustId(customers),
                                  NewOrderId(orders), indexed)
        IN  /\ Fits(r)
            /\ customers' = r.customers
            /\ orders' = r.orders
            /\ last' = IF observe THEN Call("place_order", args, r) ELSE NoCall
            /\ prev' = Summary(last)
            /\ UNCHANGED <<procs, chatVars>>

ModifyOrderOf(A, O) ==
    /\ last = NoCall
    /\ \E args \in A, observe \in O :
        LET r == tool_modify_order(customers, orders, args)
        IN  /\ customers' = r.customers
            /\ orders' = r.orders
            /\ last' = IF observe THEN Call("modify_order", args, r) ELSE NoCall
            /\ prev' = Summary(last)
            /\ UNCHANGED <<procs, chatVars>>

UpdateCustomerAddressOf(A, O) ==
    /\ last = NoCall
    /\ \E args \in A, observe \in O :
        LET r == tool_update_customer_address(customers, orders, args)
        IN  /\ customers' = r.customers
            /\ orders' = r.orders
            /\ last' = IF observe THEN Call("update_customer_address", args, r)
                       ELSE NoCall
            /\ prev' = Summary(last)
            /\ UNCHANGED <<procs, chatVars>>

GetOrderStatusOf(A, O) ==
    /\ last = NoCall
    /\ \E args \in A, observe \in O :
        LET r == tool_get_order_status(customers, orders, args)
        IN  /\ customers' = r.customers
            /\ orders' = r.orders
            /\ last' = IF observe THEN Call("get_order_status", args, r) ELSE NoCall
            /\ prev' = Summary(last)
            /\ UNCHANGED <<procs, chatVars>>

\* customer resolution: any sequence of create_customer and
\* update_customer_address
NextResolve ==
    \/ CreateCustomerOf(ResolveArgs, BOOLEAN)
    \/ UpdateCustomerAddressOf(AddressArgs, {FALSE})

SpecResolve == Init /\ [][NextResolve]_vars

\* order creation: any sequence of create_customer and place_order
NextOrder ==
    \/ CreateCustomerOf(CustomerArgs, {FALSE})
    \/ PlaceOrderOf(PlaceArgs, BOOLEAN)

SpecOrder == Init /\ [][NextOrder]_vars

\* delta application: an order is placed and a delta applied to it
NextDelta ==
    \/ orders = <<>> /\ PlaceOrderOf(DeltaPlaceArgs, {FALSE})
    \/ ModifyOrderOf(Deltas, {TRUE})

SpecDelta == Init /\ [][NextDelta]_vars

\* orders under arguments that satisfy the schema of TOOLS: quantities of at
\* least 1 to place and to add, of at least 0 to update
SchemaPlaceArgs == [customer : {Alice},
                    items : SeqsUpTo([sku : Skus, quantity : {1, 2}], MaxItems) \ {<<>>},
                    shipping_address : {None, <<"z">>}]

SchemaDeltas == [order_id : OrderIds,
                 add_items : SeqsUpTo(AddEntries, MaxItems),
                 remove_items : {{}, {"003"}},
                 update_quantities :
                     SeqsUpTo({[sku |-> "003", quantity |-> 0],
                               [sku |-> "007", quantity |-> 0],
                               [sku |-> "007", quantity |-> 1]}, MaxItems),
                 new_shipping_address : {None}]

\* the deltas whose invocation is recorded: an update to quantity 0
ZeroDeltas == [order_id : OrderIds,
               add_items : {<<>>, <<[sku |-> "003", quantity |-> 1]>>},
               remove_items : {{}},
               update_quantities : {<<[sku |-> s, quantity |-> 0]>> : s \in Skus},
               new_shipping_address : {None}]

\* quantities grow without limit in the code; the model stops at MaxQty
QtyWithin ==
    \A o \in DOMAIN orders : \A i \in DOMAIN orders[o].items :
        orders[o].items[i].quantity <= MaxQty

\* an order is placed and then modified any number of times
NextSchema ==
    \/ orders = <<>> /\ PlaceOrderOf(SchemaPlaceArgs, {FALSE})
    \/ ModifyOrderOf(SchemaDeltas, {FALSE}) /\ QtyWithin'
    \/ ModifyOrderOf(ZeroDeltas, {TRUE})

SpecSchema == Init /\ [][NextSchema]_vars

\* the five tools in any sequence, one invocation after the other
StoreCustomerArgs == [name : {<<"n">>}, email : {None, <<" ", "A">>},
                      address : {None, <<"x">>}]

StorePlaceArgs ==
    [customer : {[id |-> NoId, name |-> <<"n">>, email |-> <<"a">>,
                  address |-> <<"x">>]}
                \cup [id : CustIds, name : {None}, email : {None}, address : {None}],
     items : {<<>>, Scenario1Items},
     shipping_address : {None}]

StoreDeltas == [order_id : OrderIds,
                add_items : {<<>>},
                remove_items : {{}},
                update_quantities : {<<[sku |-> "003", quantity |-> 3]>>},
                new_shipping_address : {None}]

StatusArgs == [order_id : OrderIds]

NextStore ==
    \/ CreateCustomerOf(StoreCustomerArgs, BOOLEAN)
    \/ PlaceOrderOf(StorePlaceArgs, BOOLEAN)
    \/ ModifyOrderOf(StoreDeltas, BOOLEAN)
    \/ UpdateCustomerAddressOf(AddressArgs, BOOLEAN)
    \/ GetOrderStatusOf(StatusArgs, BOOLEAN)

SpecStore == Init /\ [][NextStore]_vars

\* ------------------------------------- concurrent find_or_create_customer
\* Two requests run find_or_create_customer at once; every read and write of
\* the store is one step.
RaceArgs == [name : {None, <<"n">>}, email : {None, <<"a">>, <<" ", "A">>},
             address : {None, <<"x">>}]

\* where the call goes after its lookups found nothing
AfterLookups(norm_name, norm_email) ==
    IF norm_name # <<>> \/ norm_email # <<>> THEN "create" ELSE "failed"

\* where the call goes after the lookup by email found nothing or was skipped
AfterEmail(norm_name, norm_email, norm_address) ==
    IF norm_name # <<>> /\ norm_address # <<>> THEN "name_address"
    ELSE AfterLookups(norm_name, norm_email)

Found(p, hit) ==
    [procs EXCEPT ![p].pc = "done", ![p].customer = hit, ![p].seen = DOMAIN customers]

Missed(p, pc) ==
    [procs EXCEPT ![p].pc = pc, ![p].seen = DOMAIN customers,
                  ![p].missed = (pc = "create")]

ResolveCall(p) ==
    /\ procs[p].pc = "idle"
    /\ \E args \in RaceArgs :
        LET norm_name == Strip(OrEmpty(args.name))
            norm_email == Lower(Strip(OrEmpty(args.email)))
            norm_address == Strip(OrEmpty(args.address))
        IN  procs' = [procs EXCEPT ![p] =
                         [pc |-> IF norm_email # <<>> THEN "email_query"
                                 ELSE AfterEmail(norm_name, norm_email, norm_address),
                          name |-> norm_name, email |-> norm_email,
                          address |-> norm_address, customer |-> NoId,
                          seen |-> {}, missed |-> FALSE,
                          delta |-> <<>>, order |-> <<>>, ok |-> FALSE]]
    /\ UNCHANGED <<storeVars, callVars, chatVars>>

ResolveEmailQuery(p) ==
    /\ procs[p].pc = "email_query"
    /\ \E indexed \in BOOLEAN :
        LET hit == EmailQuery(customers, procs[p].email, indexed)
        IN  procs' = IF hit # NoId THEN Found(p, hit) ELSE Missed(p, "email_scan")
    /\ UNCHANGED <<storeVars, callVars, chatVars>>

ResolveEmailScan(p) ==
    /\ procs[p].pc = "email_scan"
    /\ LET hit == EmailScan(customers, procs[p].email)
       IN  procs' = IF hit # NoId THEN Found(p, hit)
                    ELSE Missed(p, AfterEmail(procs[p].name, procs[p].email,
                                              procs[p].address))
    /\ UNCHANGED <<storeVars, callVars, chatVars>>

ResolveNameAddress(p) ==
    /\ procs[p].pc = "name_address"
    /\ LET hit == find_customer_by_name_address(customers, procs[p].name,
                                                procs[p].address)
       IN  procs' = IF hit # NoId THEN Found(p, hit)
                    ELSE Missed(p, AfterLookups(procs[p].name, procs[p].email))
    /\ UNCHANGED <<storeVars, callVars, chatVars>>

ResolveCreate(p) ==
    /\ procs[p].pc = "create"
    /\ NewCustId(customers) # NoId
    /\ customers' = SetCustomer(customers, NewCustId(customers),
                                [name |-> procs[p].name, email |-> procs[p].email,
                                 address |-> procs[p].address])
    /\ procs' = [procs EXCEPT ![p].pc = "done", ![p].customer = NewCustId(customers)]
    /\ UNCHANGED <<orders, callVars, chatVars>>

NextRace ==
    \E p \in Procs :
        \/ ResolveCall(p)
        \/ ResolveEmailQuery(p)
        \/ ResolveEmailScan(p)
        \/ ResolveNameAddress(p)
        \/ ResolveCreate(p)

SpecRace == Init /\ [][NextRace]_vars

\* ---------------------------------------------- concurrent tool_modify_order
\* Two requests run tool_modify_order at once on a placed order; get_order
\* and the update of save_order are one step each.
RacePlaceArgs == [customer : {Alice}, items : {Scenario1Items},
                  shipping_address : {None}]

RaceDeltas == [order_id : OrderIds,
               add_items : {<<>>, <<[sku |-> "003", quantity |-> 1]>>,
                            <<[sku |-> "007", quantity |-> 1]>>},
               remove_items : {{}},
               update_quantities : {<<>>, <<[sku |-> "007", quantity |-> 0]>>},
               new_shipping_address : {None}]

\* the order document tool_modify_order hands to save_order, computed from
\* the order it read
ModifiedOrder(order_id, order, delta) ==
    tool_modify_order(<<>>, [o \in {order_id} |-> order], delta).orders[order_id]

ModifyCall(p) ==
    /\ procs[p].pc = "idle"
    /\ orders # <<>>
    /\ \E args \in RaceDeltas :
        procs' = [procs EXCEPT ![p].pc = "get_order", ![p].delta = args]
    /\ UNCHANGED <<storeVars, callVars, chatVars>>

\* order = get_order(order_id)
ModifyGetOrder(p) ==
    /\ procs[p].pc = "get_order"
    /\ LET found == get_order(orders, procs[p].delta.order_id)
       IN  procs' = IF found = NoId
                    THEN [procs EXCEPT ![p].pc = "failed"]
                    ELSE [procs EXCEPT ![p].pc = "save_order",
                                       ![p].order = orders[found]]
    /\ UNCHANGED <<storeVars, callVars, chatVars>>

\* mutant of ModifySaveOrder: the delta is applied to the order as it is
\* stored at the time of the write
ModifySaveOrder_Fresh(p) ==
    /\ procs[p].pc = "save_order"
    /\ LET order_id == procs[p].delta.order_id
       IN  orders' = save_order(orders, order_id,
                                ModifiedOrder(order_id, orders[order_id], procs[p].delta))
    /\ procs' = [procs EXCEPT ![p].pc = "done", ![p].ok = TRUE]
    /\ UNCHANGED <<customers, callVars, chatVars>>

\* saved = save_order(order), and the result {"ok": True, ...}
ModifySaveOrder(p) ==
    /\ procs[p].pc = "save_order"
    /\ LET order_id == procs[p].delta.order_id
       IN  orders' = save_order(orders, order_id,
                                ModifiedOrder(order_id, procs[p].order, procs[p].delta))
    /\ procs' = [procs EXCEPT ![p].pc = "done", ![p].ok = TRUE]
    /\ UNCHANGED <<customers, callVars, chatVars>>

NextModifyRace ==
    \/ orders = <<>> /\ PlaceOrderOf(RacePlaceArgs, {FALSE})
    \/ \E p \in Procs :
        \/ ModifyCall(p)
        \/ ModifyGetOrder(p)
        \/ ModifySaveOrder(p)

SpecModifyRace == Init /\ [][NextModifyRace]_vars

\* ------------------------------------------------------ chat orchestration
SessionIds == {"s1", "s2"}
SYSTEM_PROMPT == <<"You are an order assistant for a lens supplier.">>
Contents == {None, <<"ok">>}

\* tc.function of the tool calls a model response may carry: the name, and the
\* argument payload (text that json.loads decodes, or does not)
Payload(args) == [decodes |-> TRUE, args |-> args]
Malformed == [decodes |-> FALSE, args |-> <<>>]

ToolCalls ==
    { [name |-> "place_order",
       arguments |-> Payload([customer |-> Alice, items |-> Scenario1Items,
                              shipping_address |-> None])],
      [name |-> "get_order_status", arguments |-> Payload([order_id |-> 1])],
      [name |-> "cancel_order", arguments |-> Payload([order_id |-> 1])],
      [name |-> "cancel_order", arguments |-> Malformed],
      [name |-> "modify_order", arguments |-> Malformed] }

\* response.choices[0].message
Responses ==
    [tool_calls : {<<>>}, content : Contents]
    \cup [tool_calls : SeqsUpTo(ToolCalls, MaxCalls) \ {<<>>}, content : {None}]

\* tc.id
CallId(t, k) == <<"call", ToString(t), ToString(k)>>

UserMessage(t) == <<"message", ToString(t)>>

\* ensure_session
ensure_session(sessions, session_id) ==
    IF session_id \in DOMAIN sessions THEN sessions
    ELSE [x \in DOMAIN sessions \cup {session_id} |->
             IF x = session_id
             THEN <<[role |-> "system", content |-> SYSTEM_PROMPT]>>
             ELSE sessions[x]]

\* messages.append(...)
AppendAll(sessions, session_id, entries) ==
    [sessions EXCEPT ![session_id] = @ \o entries]

\* the names of the registered implementations
TOOL_IMPLS == {"create_customer", "place_order", "modify_order",
               "update_customer_address", "get_order_status"}

\* impl = TOOL_IMPLS.get(fn_name) and the call of impl, an exception of which
\* is turned into a failed result
Dispatch(fn_name, args, cs, os, cid, oid, indexed) ==
    IF fn_name \notin TOOL_IMPLS
    THEN [ok |-> FALSE, error |-> <<"Unknown tool ", fn_name>>,
          customer |-> NoId, order |-> NoId, customers |-> cs, orders |-> os]
    ELSE CASE fn_name = "create_customer" ->
                  tool_create_customer(cs, os, args, cid, indexed)
           [] fn_name = "place_order" ->
                  tool_place_order(cs, os, args, cid, oid, indexed)
           [] fn_name = "modify_order" -> tool_modify_order(cs, os, args)
           [] fn_name = "update_customer_address" ->
                  tool_update_customer_address(cs, os, args)
           [] fn_name = "get_order_status" -> tool_get_order_status(cs, os, args)

\* tool_result as handed to json.dumps
ToolResult(r) == [ok |-> r.ok, error |-> r.error, customer |-> r.customer,
                  order |-> r.order]

\* sep.join(texts)
RECURSIVE Join(_, _)
Join(texts, sep) ==
    IF texts = <<>> THEN <<>>
    ELSE IF Len(texts) = 1 THEN Head(texts)
    ELSE Head(texts) \o <<sep>> \o Join(Tail(texts), sep)

\* f"{fn_name}: {tool_result.get('error', 'Unknown error')}"
ErrorLine(fn_name, r) == <<fn_name, ": ">> \o r.error

ErrorText(tool_errors) ==
    <<"Error while performing the requested action: ">> \o Join(tool_errors, " | ")

\* content or "(no content)"
ReplyOf(content) == IF Truthy(content) THEN content ELSE <<"(no content)">>

Ended(t) == turns[t].pc \in {"done", "aborted", "failed"}

\* the tools offered to the model
TOOLS == {"create_customer", "place_order", "modify_order",
          "update_customer_address", "get_order_status"}

\* _sanitize_messages: a content of None is sent as the empty string
sanitize_messages(messages) ==
    [i \in DOMAIN messages |->
        IF messages[i].role # "tool" /\ messages[i].content = None
        THEN [messages[i] EXCEPT !.content = <<>>]
        ELSE messages[i]]

\* the request call_openai makes
call_openai(messages) ==
    [messages |-> sanitize_messages(messages), tools |-> TOOLS,
     tool_choice |-> "auto"]

\* the turn whose list SESSIONS maps session_id to
Owner(session_id) ==
    CHOOSE c \in TurnIds : turns[c].attached /\ turns[c].session_id = session_id

\* the list that messages of turn t refers to
MessagesOf(t) ==
    LET c == turns[t].messages
    IN  IF turns[c].attached THEN SESSIONS[turns[c].session_id] ELSE turns[c].own

\* mutant of SessionsAfter: one list serves every session
SessionsAfter_Shared(t, entries) ==
    [x \in DOMAIN SESSIONS |-> SESSIONS[x] \o entries]

\* messages.append(...) by turn t: SESSIONS and the lists it no longer maps
SessionsAfter(t, entries) ==
    LET c == turns[t].messages
    IN  IF turns[c].attached THEN AppendAll(SESSIONS, turns[c].session_id, entries)
        ELSE SESSIONS

TurnsAfter(t, entries) ==
    LET c == turns[t].messages
    IN  IF turns[c].attached THEN turns
        ELSE [turns EXCEPT ![c].own = @ \o entries]

\* SESSIONS[session_id] = [system entry], by turn t
SessionsSet(t, session_id) ==
    [x \in DOMAIN SESSIONS \cup {session_id} |->
        IF x = session_id THEN <<[role |-> "system", content |-> SYSTEM_PROMPT]>>
        ELSE SESSIONS[x]]

TurnsSet(t, session_id) ==
    [c \in TurnIds |->
        IF c = t THEN [turns[c] EXCEPT !.attached = TRUE]
        ELSE IF turns[c].attached /\ turns[c].session_id = session_id
        THEN [turns[c] EXCEPT !.attached = FALSE, !.own = SESSIONS[session_id]]
        ELSE turns[c]]

\* the responses to a summary call: the model is offered the tools again
SummaryResponses ==
    [tool_calls : {<<>>}, content : Contents]
    \cup {[tool_calls |-> <<[name |-> "get_order_status",
                            arguments |-> Payload([order_id |-> 1])]>>,
           content |-> None]}

\* the responses of the model to requests served at once
SessionResponses ==
    {[tool_calls |-> <<>>, content |-> <<"ok">>],
     [tool_calls |-> <<[name |-> "cancel_order",
                       arguments |-> Payload([order_id |-> 1])]>>,
      content |-> None]}

\* mutant of StoreRead: every invocation starts from an empty snapshot
StoreRead_Stale(t) == [customers |-> <<>>, orders |-> <<>>]

\* the store an invocation of turn t reads
StoreRead(t) == [customers |-> customers, orders |-> orders]

\* chat -> chat_step up to the first call of the model, for turns that are
\* taken one after the other: ensure_session, messages = SESSIONS[session_id],
\* the user entry, and the request to the model
ChatStart(t) ==
    /\ turns[t].pc = "idle"
    /\ \A u \in Turns : (u < t => Ended(u)) /\ (u > t => turns[u].pc = "idle")
    /\ \E session_id \in SessionIds :
        LET created == session_id \notin DOMAIN SESSIONS
            messages == AppendAll(ensure_session(SESSIONS, session_id), session_id,
                                  <<[role |-> "user", content |-> UserMessage(t)]>>)
        IN  /\ SESSIONS' = messages
            /\ turns' = [turns EXCEPT ![t].pc = "awaiting_model",
                                      ![t].session_id = session_id,
                                      ![t].attached = created,
                                      ![t].messages = IF created THEN t
                                                      ELSE Owner(session_id),
                                      ![t].model_calls = 1,
                                      ![t].submitted =
                                          <<call_openai(messages[session_id])>>]
    /\ UNCHANGED <<storeVars, callVars, procs>>

\* mutant of EnsureCheck: a request waits while another one is under way
EnsureCheck_Locked(t) ==
    /\ turns[t].pc = "idle"
    /\ \A u \in TurnIds \ {t} : turns[u].pc = "idle" \/ Ended(u)
    /\ \E session_id \in SessionIds :
        turns' = [turns EXCEPT ![t].pc = IF session_id \in DOMAIN SESSIONS
                                         THEN "ensured" ELSE "creating",
                               ![t].session_id = session_id]
    /\ UNCHANGED <<storeVars, callVars, procs, SESSIONS>>

\* ensure_session, the test: session_id not in SESSIONS
EnsureCheck(t) ==
    /\ turns[t].pc = "idle"
    /\ \E session_id \in SessionIds :
        turns' = [turns EXCEPT ![t].pc = IF session_id \in DOMAIN SESSIONS
                                         THEN "ensured" ELSE "creating",
                               ![t].session_id = session_id]
    /\ UNCHANGED <<storeVars, callVars, procs, SESSIONS>>

\* ensure_session, the assignment: SESSIONS[session_id] = [system entry]
EnsureSet(t) ==
    /\ turns[t].pc = "creating"
    /\ SESSIONS' = SessionsSet(t, turns[t].session_id)
    /\ turns' = [TurnsSet(t, turns[t].session_id) EXCEPT ![t].pc = "ensured"]
    /\ UNCHANGED <<storeVars, callVars, procs>>

\* messages = SESSIONS[session_id], the user entry, the request to the model
AppendUser(t) ==
    /\ turns[t].pc = "ensured"
    /\ LET c == Owner(turns[t].session_id)
           entry == <<[role |-> "user", content |-> UserMessage(t)]>>
       IN  /\ SESSIONS' = AppendAll(SESSIONS, turns[t].session_id, entry)
           /\ turns' = [turns EXCEPT
                  ![t].pc = "awaiting_model",
                  ![t].messages = c,
                  ![t].model_calls = 1,
                  ![t].submitted =
                      <<call_openai(SESSIONS[turns[t].session_id] \o entry)>>]
    /\ UNCHANGED <<storeVars, callVars, procs>>

\* mutant of ModelRepliesOf: the requested invocations are taken as executed
ModelRepliesOf_SkipTools(t, R) ==
    /\ turns[t].pc = "awaiting_model"
    /\ \E msg \in R :
        IF msg.tool_calls # <<>>
        THEN /\ turns' = [turns EXCEPT ![t].pc = "executed",
                                       ![t].tool_calls =
                                           [k \in 1..Len(msg.tool_calls) |->
                                               [id |-> CallId(t, k),
                                                function |-> msg.tool_calls[k]]],
                                       ![t].k = Len(msg.tool_calls) + 1]
             /\ UNCHANGED SESSIONS
        ELSE LET entry == <<[role |-> "assistant", content |-> msg.content]>>
             IN  /\ SESSIONS' = SessionsAfter(t, entry)
                 /\ turns' = [TurnsAfter(t, entry) EXCEPT
                                  ![t].pc = "done",
                                  ![t].reply = ReplyOf(msg.content)]
    /\ UNCHANGED <<storeVars, callVars, procs>>

\* the first response of the model, one of R
ModelRepliesOf(t, R) ==
    /\ turns[t].pc = "awaiting_model"
    /\ \E msg \in R :
        IF msg.tool_calls # <<>>
        THEN /\ turns' = [turns EXCEPT ![t].pc = "executing",
                                       ![t].tool_calls =
                                           [k \in 1..Len(msg.tool_calls) |->
                                               [id |-> CallId(t, k),
                                                function |-> msg.tool_calls[k]]],
                                       ![t].k = 1]
             /\ UNCHANGED SESSIONS
        ELSE LET entry == <<[role |-> "assistant", content |-> msg.content]>>
             IN  /\ SESSIONS' = SessionsAfter(t, entry)
                 /\ turns' = [TurnsAfter(t, entry) EXCEPT
                                  ![t].pc = "done",
                                  ![t].reply = ReplyOf(msg.content)]
    /\ UNCHANGED <<storeVars, callVars, procs>>

\* mutant of ModelFails: a failed first call is made once more
ModelFails_Retry(t) ==
    /\ turns[t].pc \in {"awaiting_model", "awaiting_summary"}
    /\ turns' = IF turns[t].model_calls < 2
                THEN [turns EXCEPT ![t].model_calls = @ + 1]
                ELSE [turns EXCEPT ![t].pc = "failed",
                                   ![t].reply = <<"Error: ", "model unavailable">>]
    /\ UNCHANGED <<storeVars, callVars, procs, SESSIONS>>

\* call_openai raises: chat answers with the error
ModelFails(t) ==
    /\ turns[t].pc \in {"awaiting_model", "awaiting_summary"}
    /\ turns' = [turns EXCEPT ![t].pc = "failed",
                              ![t].reply = <<"Error: ", "model unavailable">>]
    /\ UNCHANGED <<storeVars, callVars, procs, SESSIONS>>

\* mutant of ExecuteTool: the result is appended before its invocation
ExecuteTool_ResultFirst(t) ==
    /\ turns[t].pc = "executing"
    /\ LET k == turns[t].k
           tc == turns[t].tool_calls[k]
           fn_name == tc.function.name
       IN  IF ~tc.function.arguments.decodes
           THEN \* json.loads raises, outside the try of the loop: chat answers
                /\ turns' = [turns EXCEPT ![t].pc = "aborted",
                                          ![t].reply = <<"Error: ", "JSONDecodeError">>]
                /\ UNCHANGED <<storeVars, SESSIONS>>
           ELSE \E indexed \in BOOLEAN, read \in {StoreRead(t)} :
                \E r \in {Dispatch(fn_name, tc.function.arguments.args,
                                    read.customers, read.orders,
                                    NewCustId(customers), NewOrderId(orders),
                                    indexed)} :
                LET entries == << [role |-> "tool", tool_call_id |-> tc.id,
                                   name |-> fn_name, content |-> ToolResult(r)],
                                  [role |-> "assistant", tool_calls |-> <<tc>>,
                                   content |-> <<>>] >>
                IN  /\ Fits(r)
                    /\ customers' = r.customers
                    /\ orders' = r.orders
                    /\ SESSIONS' = SessionsAfter(t, entries)
                    /\ turns' = [TurnsAfter(t, entries) EXCEPT
                           ![t].pc = IF k = Len(turns[t].tool_calls)
                                     THEN "executed" ELSE "executing",
                           ![t].k = k + 1,
                           ![t].tool_errors =
                               IF r.ok THEN @ ELSE Append(@, ErrorLine(fn_name, r)),
                           ![t].ran = Append(@, [id |-> tc.id, read |-> read,
                                                 left |-> [customers |-> r.customers,
                                                           orders |-> r.orders]])]
    /\ UNCHANGED <<callVars, procs>>

\* one iteration of the loop over msg.tool_calls
ExecuteTool(t) ==
    /\ turns[t].pc = "executing"
    /\ LET k == turns[t].k
           tc == turns[t].tool_calls[k]
           fn_name == tc.function.name
       IN  IF ~tc.function.arguments.decodes
           THEN \* json.loads raises, outside the try of the loop: chat answers
                /\ turns' = [turns EXCEPT ![t].pc = "aborted",
                                          ![t].reply = <<"Error: ", "JSONDecodeError">>]
                /\ UNCHANGED <<storeVars, SESSIONS>>
           ELSE \E indexed \in BOOLEAN, read \in {StoreRead(t)} :
                \E r \in {Dispatch(fn_name, tc.function.arguments.args,
                                    read.customers, read.orders,
                                    NewCustId(customers), NewOrderId(orders),
                                    indexed)} :
                LET entries == << [role |-> "assistant", tool_calls |-> <<tc>>,
                                   content |-> <<>>],
                                  [role |-> "tool", tool_call_id |-> tc.id,
                                   name |-> fn_name, content |-> ToolResult(r)] >>
                IN  /\ Fits(r)
                    /\ customers' = r.customers
                    /\ orders' = r.orders
                    /\ SESSIONS' = SessionsAfter(t, entries)
                    /\ turns' = [TurnsAfter(t, entries) EXCEPT
                           ![t].pc = IF k = Len(turns[t].tool_calls)
                                     THEN "executed" ELSE "executing",
                           ![t].k = k + 1,
                           ![t].tool_errors =
                               IF r.ok THEN @ ELSE Append(@, ErrorLine(fn_name, r)),
                           ![t].ran = Append(@, [id |-> tc.id, read |-> read,
                                                 left |-> [customers |-> r.customers,
                                                           orders |-> r.orders]])]
    /\ UNCHANGED <<callVars, procs>>

\* if tool_errors: the reply is the error text
ShortCircuit(t) ==
    /\ turns[t].pc = "executed"
    /\ turns[t].tool_errors # <<>>
    /\ LET error_text == ErrorText(turns[t].tool_errors)
           entry == <<[role |-> "assistant", content |-> error_text]>>
       IN  /\ SESSIONS' = SessionsAfter(t, entry)
           /\ turns' = [TurnsAfter(t, entry) EXCEPT ![t].pc = "done",
                                                    ![t].reply = error_text]
    /\ UNCHANGED <<storeVars, callVars, procs>>

\* mutant of CallSummary: the summary call is made whatever the tools reported
CallSummary_Always(t) ==
    /\ turns[t].pc = "executed"
    /\ turns' = [turns EXCEPT ![t].pc = "awaiting_summary",
                              ![t].model_calls = @ + 1,
                              ![t].submitted = Append(@, call_openai(MessagesOf(t)))]
    /\ UNCHANGED <<storeVars, callVars, procs, SESSIONS>>

\* final_resp = call_openai(messages)
CallSummary(t) ==
    /\ turns[t].pc = "executed"
    /\ turns[t].tool_errors = <<>>
    /\ turns' = [turns EXCEPT ![t].pc = "awaiting_summary",
                              ![t].model_calls = @ + 1,
                              ![t].submitted = Append(@, call_openai(MessagesOf(t)))]
    /\ UNCHANGED <<storeVars, callVars, procs, SESSIONS>>

\* the second response of the model: its content is the reply, its tool
\* calls are not looked at
SummaryReplies(t) ==
    /\ turns[t].pc = "awaiting_summary"
    /\ \E final_msg \in SummaryResponses :
        LET entry == <<[role |-> "assistant", content |-> final_msg.content]>>
        IN  /\ SESSIONS' = SessionsAfter(t, entry)
            /\ turns' = [TurnsAfter(t, entry) EXCEPT
                             ![t].pc = "done",
                             ![t].reply = ReplyOf(final_msg.content),
                             ![t].final_tool_calls = final_msg.tool_calls]
    /\ UNCHANGED <<storeVars, callVars, procs>>

\* the first response of the model
ModelReplies(t) == ModelRepliesOf(t, Responses)

NextTurn ==
    \E t \in Turns :
        \/ ChatStart(t)
        \/ ModelReplies(t)
        \/ ModelFails(t)
        \/ ExecuteTool(t)
        \/ ShortCircuit(t)
        \/ CallSummary(t)
        \/ SummaryReplies(t)

SpecTurn == Init /\ [][NextTurn]_vars

\* A turn that has started goes on: the thread serving it runs, and a call of
\* the model returns or raises.  The arrival of a request is not forced.
FairTurn(t) ==
    /\ WF_vars(ModelReplies(t) \/ ModelFails(t))
    /\ WF_vars(SummaryReplies(t) \/ ModelFails(t))
    /\ WF_vars(ExecuteTool(t))
    /\ WF_vars(ShortCircuit(t))
    /\ WF_vars(CallSummary(t))

\* one turn on its own, from its request to its end
NextFirstTurn == NextTurn /\ \A t \in Turns : t > 1 => turns'[t] = turns[t]

SpecTurnFair == Init /\ [][NextFirstTurn]_vars /\ FairTurn(1)

\* requests served at once: chat is a synchronous endpoint, run by a pool of
\* threads, and every access to SESSIONS or to a list is one step
NextSessions ==
    \E t \in Racers :
        \/ EnsureCheck(t)
        \/ EnsureSet(t)
        \/ AppendUser(t)
        \/ ModelRepliesOf(t, SessionResponses)
        \/ ExecuteTool(t)
        \/ ShortCircuit(t)

SpecSessions == Init /\ [][NextSessions]_vars

\* ---------------------------------------------------------------- claim C1
\* Two consecutive create_customer calls whose emails normalize to the same
\* non-empty value
SameEmailTwice ==
    /\ prev.tool = "create_customer"
    /\ last.tool = "create_customer"
    /\ prev.email # <<>>
    /\ ResolutionEmail(last) = prev.email

InList(list, s) == \E i \in 1..Len(list) : list[i].sku = s

\* the quantity of the last entry of s in the list
LastQty(list, s) ==
    LET at == {i \in 1..Len(list) : list[i].sku = s}
    IN  IF at = {} THEN 0
        ELSE list[CHOOSE i \in at : \A j \in at : j <= i].quantity

RECURSIVE SumQty(_, _)
SumQty(list, s) ==
    IF list = <<>> THEN 0
    ELSE (IF Head(list).sku = s THEN Head(list).quantity ELSE 0) + SumQty(Tail(list), s)

Modified == last.tool = "modify_order" /\ last.ok

\* the item map M read from the stored order, and the map persisted
StoredItems == last.orders_before[last.order].items
PersistedItems == orders[last.order].items

Absent(s) == ~InList(PersistedItems, s)

Has(s, q) == /\ Cardinality({i \in 1..Len(PersistedItems) : PersistedItems[i].sku = s}) = 1
             /\ LastQty(PersistedItems, s) = q

Summed(s) ==
    /\ LastQty(PersistedItems, s) = LastQty(StoredItems, s) + SumQty(last.args.add_items, s)
    /\ InList(PersistedItems, s) <=> InList(StoredItems, s) \/ InList(last.args.add_items, s)

\* C2 as stated: every SKU in remove_items is absent, every SKU in
\* update_quantities with quantity > 0 has exactly that quantity, every SKU in
\* update_quantities with quantity <= 0 is absent, every other SKU has
\* quantity M[sku] + add[sku].
C2_AsStated ==
    Modified =>
        \A s \in Skus :
            LET upd == last.args.update_quantities
            IN  /\ s \in last.args.remove_items => Absent(s)
                /\ \A i \in 1..Len(upd) :
                      upd[i].sku = s =>
                          IF upd[i].quantity > 0 THEN Has(s, upd[i].quantity) ELSE Absent(s)
                /\ (s \notin last.args.remove_items /\ ~InList(upd, s)) => Summed(s)

\* C2 amended: modify_order persists a map in which every SKU in
\* update_quantities has the quantity of its last entry there if that is > 0
\* and is absent if it is <= 0; every SKU in remove_items and not in
\* update_quantities is absent; every other SKU has quantity M[sku] plus the
\* sum of its add_items entries.
C2_Delta ==
    Modified =>
        \A s \in Skus :
            LET upd == last.args.update_quantities
            IN  IF InList(upd, s)
                THEN (IF LastQty(upd, s) > 0 THEN Has(s, LastQty(upd, s)) ELSE Absent(s))
                ELSE IF s \in last.args.remove_items THEN Absent(s)
                ELSE Summed(s)

\* 003 is removed and updated to 3 and is persisted with 3; 007 is added
\* twice to a stored 2
C2_Witness ==
    /\ Modified
    /\ "003" \in last.args.remove_items
    /\ LastQty(last.args.update_quantities, "003") = 3
    /\ Has("003", 3)
    /\ ~InList(last.args.update_quantities, "007")
    /\ "007" \notin last.args.remove_items
    /\ LastQty(StoredItems, "007") = 2
    /\ SumQty(last.args.add_items, "007") = 2
    /\ Has("007", 4)

\* C3: within one delta the precedence is add, then remove, then update.  A
\* SKU in add_items and remove_items and not in update_quantities ends up
\* absent; a SKU in update_quantities that is also in add_items or
\* remove_items ends up at the update value (that of its last entry), or
\* absent if that value is <= 0.
C3_Precedence ==
    Modified =>
        \A s \in Skus :
            LET upd == last.args.update_quantities
                add == last.args.add_items
                rm == last.args.remove_items
            IN  /\ (InList(add, s) /\ s \in rm /\ ~InList(upd, s)) => Absent(s)
                /\ (InList(upd, s) /\ (InList(add, s) \/ s \in rm)) =>
                       IF LastQty(upd, s) > 0 THEN Has(s, LastQty(upd, s)) ELSE Absent(s)

\* 003 is in all three lists and ends at its update value; 007 is added and
\* removed and ends absent
C3_Witness ==
    /\ Modified
    /\ InList(last.args.add_items, "003")
    /\ "003" \in last.args.remove_items
    /\ LastQty(last.args.update_quantities, "003") = 3
    /\ Has("003", 3)
    /\ InList(StoredItems, "007")
    /\ InList(last.args.add_items, "007")
    /\ "007" \in last.args.remove_items
    /\ ~InList(last.args.update_quantities, "007")
    /\ Absent("007")

\* ---------------------------------------------------------- claims C8, C9
Placed == last.tool = "place_order"

\* C8: order creation with an empty item list is rejected with the
\* validation error, and the orders collection is left as it was.
C8_EmptyItemsRejected ==
    (Placed /\ last.args.items = <<>>) =>
        /\ ~last.ok
        /\ last.customer # NoId => last.error = <<"Items cannot be empty.">>
        /\ last.new_orders = {}
        /\ orders = last.orders_before

\* create_order is reached with an empty list while an order is stored
C8_Witness ==
    /\ Placed
    /\ last.args.items = <<>>
    /\ last.customer # NoId
    /\ last.error = <<"Items cannot be empty.">>
    /\ DOMAIN orders # {}

\* the description of place_order matches no customer stored before the call
MatchesNone ==
    LET d == last.args.customer
        e == Lower(Strip(OrEmpty(d.email)))
        n == Strip(OrEmpty(d.name))
        a == Strip(OrEmpty(d.address))
        cs == last.customers_before
    IN  \A c \in DOMAIN cs :
            /\ ~(e # <<>> /\ cs[c].email = e)
            /\ ~(n # <<>> /\ a # <<>> /\ cs[c].name = n /\ cs[c].address = a)

OneCustomerOneOrder ==
    /\ last.ok
    /\ Cardinality(last.new_customers) = 1
    /\ Cardinality(last.new_orders) = 1
    /\ \A c \in DOMAIN last.customers_before : customers[c] = last.customers_before[c]
    /\ \A o \in DOMAIN last.orders_before : orders[o] = last.orders_before[o]
    /\ last.order \in last.new_orders
    /\ orders[last.order].status = "PLACED"
    /\ orders[last.order].items = last.args.items
    /\ orders[last.order].customer_id \in last.new_customers
    /\ orders[last.order].customer_id = last.customer

\* C9 as stated: place_order with a non-empty item list and a description
\* with a non-empty name or email and no id, matching no stored customer,
\* adds exactly one customer and one order (PLACED, the requested items, the
\* new customer's id).
C9_AsStated ==
    (/\ Placed
     /\ last.args.items # <<>>
     /\ last.args.customer.id = NoId
     /\ Truthy(last.args.customer.name) \/ Truthy(last.args.customer.email)
     /\ MatchesNone) => OneCustomerOneOrder

\* C9 amended: the same, for a description whose name or email is non-empty
\* after normalization (trimmed).
C9_PlaceOrderCreates ==
    (/\ Placed
     /\ last.args.items # <<>>
     /\ last.args.customer.id = NoId
     /\ \/ Strip(OrEmpty(last.args.customer.name)) # <<>>
        \/ Strip(OrEmpty(last.args.customer.email)) # <<>>
     /\ MatchesNone) => OneCustomerOneOrder

\* a customer is stored, the description matches none, one customer and one
\* order are added
C9_Witness ==
    /\ Placed
    /\ last.args.items = Scenario1Items
    /\ last.args.customer.id = NoId
    /\ Strip(OrEmpty(last.args.customer.name)) # <<>>
    /\ Strip(OrEmpty(last.args.customer.email)) # <<>>
    /\ DOMAIN last.customers_before # {}
    /\ MatchesNone
    /\ OneCustomerOneOrder

\* ---------------------------------------------------------------- claim C7
SharingEmail(e) == {c \in DOMAIN customers : customers[c].email = e}

\* C7: two concurrent resolutions with the same email that no stored customer
\* has, whose lookups both end without a match, both create a customer: the
\* store then holds two records with that normalized email.
C7_RaceDuplicates ==
    \A p, q \in Procs :
        (/\ p # q
         /\ procs[p].pc = "done" /\ procs[q].pc = "done"
         /\ procs[p].missed /\ procs[q].missed
         /\ procs[p].email # <<>>
         /\ procs[p].email = procs[q].email)
            => /\ procs[p].customer # procs[q].customer
               /\ {procs[p].customer, procs[q].customer} \subseteq SharingEmail(procs[p].email)

\* both lookups read the empty store, before either write, and two records
\* share the email
C7_Witness ==
    /\ \A p \in Procs : procs[p].pc = "done" /\ procs[p].missed /\ procs[p].seen = {}
    /\ procs[1].email = <<"a">> /\ procs[2].email = <<"a">>
    /\ Cardinality(SharingEmail(<<"a">>)) = 2


\* ------------------------------------------------- claims C4, C5, C6, C10
Log(t) == SESSIONS[turns[t].session_id]

Started(t) == turns[t].pc # "idle"

\* the tool result entries that turn t appended, in log order
ToolEntries(t) ==
    LET OfTurn(e) == e.role = "tool" /\ e.tool_call_id[2] = ToString(t)
    IN  SelectSeq(Log(t), OfTurn)

\* the "<tool name>: <error>" descriptions of the failed invocations of turn t,
\* read off the log in invocation order
FailedDescriptions(t) ==
    LET Failed(e) == ~e.content.ok
        failed == SelectSeq(ToolEntries(t), Failed)
    IN  [i \in 1..Len(failed) |-> <<failed[i].name, ": ">> \o failed[i].content.error]

IsReplyEntry(e, text) ==
    /\ e.role = "assistant"
    /\ "tool_calls" \notin DOMAIN e
    /\ e.content = text

\* an entry closes the turn when the next entry, if any, opens another turn
ClosesTurn(log, i) == i = Len(log) \/ log[i + 1].role = "user"

\* text is in the log of turn t as the assistant entry that follows the
\* result of the turn's last invocation and ends the turn
TurnEndingEntry(t, text) ==
    \E i \in DOMAIN Log(t) :
        /\ i > 1
        /\ IsReplyEntry(Log(t)[i], text)
        /\ Log(t)[i - 1].role = "tool"
        /\ Log(t)[i - 1].tool_call_id = turns[t].tool_calls[Len(turns[t].tool_calls)].id
        /\ ClosesTurn(Log(t), i)

\* the last entry turn t appended is a tool result
EndsOnToolResult(t) ==
    \E i \in DOMAIN Log(t) :
        /\ Log(t)[i].role = "tool"
        /\ Log(t)[i].tool_call_id = turns[t].ran[Len(turns[t].ran)].id
        /\ ClosesTurn(Log(t), i)

Separators == {"", " ", ", ", "; ", " | "}

Attempted(t, k) ==
    /\ k \in DOMAIN turns[t].tool_calls
    /\ \/ turns[t].k > k
       \/ turns[t].k = k /\ turns[t].pc = "aborted"

\* the log of turn t holds a failed tool result for invocation k
FailedResultRecorded(t, k) ==
    \E i \in DOMAIN Log(t) :
        /\ Log(t)[i].role = "tool"
        /\ Log(t)[i].tool_call_id = turns[t].tool_calls[k].id
        /\ ~Log(t)[i].content.ok

\* C5 as stated: an invocation whose payload cannot be decoded is recorded as
\* a failed tool result and does not abort the turn: the turn goes on to the
\* remaining invocations and ends with an assistant reply in the log
C5_AsStated ==
    \A t \in Turns : \A k \in DOMAIN turns[t].tool_calls :
        (Attempted(t, k) /\ ~turns[t].tool_calls[k].function.arguments.decodes)
        => /\ turns[t].pc # "aborted"
           /\ FailedResultRecorded(t, k)
           /\ turns[t].pc = "done" => TurnEndingEntry(t, turns[t].reply)

\* C6 as stated: an invocation naming a tool outside the registry never raises
\* out of the turn, whatever its payload: its result is the failure "Unknown
\* tool <name>" and it leaves the store as it found it
C6_AsStated ==
    \A t \in Turns : \A k \in DOMAIN turns[t].tool_calls :
        (Attempted(t, k) /\ turns[t].tool_calls[k].function.name \notin TOOL_IMPLS)
        => /\ turns[t].pc # "aborted"
           /\ \E i \in DOMAIN Log(t) :
                /\ Log(t)[i].role = "tool"
                /\ Log(t)[i].tool_call_id = turns[t].tool_calls[k].id
                /\ ~Log(t)[i].content.ok
                /\ Log(t)[i].content.error =
                       <<"Unknown tool ", turns[t].tool_calls[k].function.name>>
           /\ \E i \in DOMAIN turns[t].ran :
                /\ turns[t].ran[i].id = turns[t].tool_calls[k].id
                /\ turns[t].ran[i].left = turns[t].ran[i].read

\* C10: the invocations of one response are executed one at a time in the
\* order listed, their results enter the log in that order, and each
\* invocation after the first reads the store that the one before it left
C10_Sequential ==
    \A t \in Turns :
        Started(t) =>
            /\ Len(turns[t].ran) <= Len(turns[t].tool_calls)
            /\ Len(ToolEntries(t)) = Len(turns[t].ran)
            /\ \A i \in DOMAIN turns[t].ran :
                /\ turns[t].ran[i].id = turns[t].tool_calls[i].id
                /\ ToolEntries(t)[i].tool_call_id = turns[t].tool_calls[i].id
                /\ i > 1 => turns[t].ran[i].read = turns[t].ran[i - 1].left

\* a second invocation has run after a first one that wrote to the store
C10_Witness ==
    \E t \in Turns :
        /\ Len(turns[t].ran) >= 2
        /\ turns[t].ran[1].left # turns[t].ran[1].read
        /\ turns[t].ran[2].read.orders # <<>>


\* --------------------------------------------------------------- claim C11
\* C11: a turn waiting for its first model response has made one model call
\* and run no tool; the step in which that call fails leaves the record store
\* and the session logs as they were and answers "Error: <cause>"; the step
\* that opened the turn left the record store as it was; and a failed turn
\* takes no further step, so the call is not made again
C11_NoRetry ==
    [][\A t \in Turns :
          /\ turns'[t].pc = "awaiting_model" =>
                /\ turns'[t].model_calls = 1
                /\ turns'[t].ran = <<>>
                /\ turns'[t].tool_calls = <<>>
          /\ (turns[t].pc = "idle" /\ turns'[t].pc = "awaiting_model") =>
                /\ customers' = customers
                /\ orders' = orders
          /\ (turns[t].pc = "awaiting_model" /\ turns'[t].pc = "failed") =>
                /\ customers' = customers
                /\ orders' = orders
                /\ SESSIONS' = SESSIONS
                /\ turns'[t].model_calls = 1
                /\ turns'[t].ran = <<>>
                /\ Len(turns'[t].reply) = 2
                /\ turns'[t].reply[1] = "Error: "
                /\ turns'[t].reply[2] # ""
          /\ turns[t].pc = "failed" => turns'[t] = turns[t]
      ]_vars

\* the first model call of a turn has failed
C11_Witness ==
    \E t \in Turns :
        /\ turns[t].pc = "failed"
        /\ turns[t].model_calls = 1


\* --------------------------------------------------------------- claim C14
\* the last invocation resolved a customer from a name and an email that are
\* both empty once normalized
NothingToResolve ==
    /\ last.tool = "create_customer"
    /\ Strip(OrEmpty(last.args.name)) = <<>>
    /\ Lower(Strip(OrEmpty(last.args.email))) = <<>>

\* C14: a resolution whose normalized name and email are both empty fails
\* with the resolution error (in the code's words "Cannot resolve customer.
\* Provide at least name or email."), returns no customer and leaves the
\* store as it found it, whatever the address
C14_NothingToResolve ==
    NothingToResolve =>
        /\ ~last.ok
        /\ last.error = <<"Cannot resolve customer. Provide at least name or email.">>
        /\ last.customer = NoId
        /\ last.new_customers = {}
        /\ customers = last.customers_before

\* such a resolution was made with an address, against a store holding a
\* record with that address
C14_Witness ==
    /\ NothingToResolve
    /\ last.args.name = <<" ">>
    /\ last.args.address = <<"x">>
    /\ \E c \in DOMAIN customers : customers[c].address = <<"x">>


\* --------------------------------------------------------------- claim C18
\* the normalized fields of the last resolution, and the records of the store
\* it read that match them
AskedName == Strip(OrEmpty(last.args.name))
AskedEmail == Lower(Strip(OrEmpty(last.args.email)))
AskedAddress == Strip(OrEmpty(last.args.address))

EmailMatches ==
    IF AskedEmail = <<>> THEN {}
    ELSE {c \in DOMAIN last.customers_before :
             Lower(Strip(last.customers_before[c].email)) = AskedEmail}

NameAddressMatches ==
    IF AskedName = <<>> \/ AskedAddress = <<>> THEN {}
    ELSE {c \in DOMAIN last.customers_before :
             /\ last.customers_before[c].name = AskedName
             /\ last.customers_before[c].address = AskedAddress}

\* the store is the one the resolution read plus the one record c
OneWrite(c) ==
    /\ c \notin DOMAIN last.customers_before
    /\ DOMAIN customers = DOMAIN last.customers_before \cup {c}
    /\ \A d \in DOMAIN last.customers_before : customers[d] = last.customers_before[d]
    /\ customers[c] = [name |-> AskedName, email |-> AskedEmail,
                       address |-> AskedAddress]

\* C18: a resolution returns a record carrying the normalized email when
\* there is one, else a record equal in name and address when both are given
\* and there is one, and in both cases writes nothing; it creates a record,
\* by one write, exactly when neither lookup matches and the name or the
\* email is not empty
C18_Priority ==
    last.tool = "create_customer" =>
        /\ EmailMatches # {} =>
              /\ last.ok
              /\ last.customer \in EmailMatches
              /\ customers = last.customers_before
        /\ (EmailMatches = {} /\ NameAddressMatches # {}) =>
              /\ last.ok
              /\ last.customer \in NameAddressMatches
              /\ customers = last.customers_before
        /\ (EmailMatches = {} /\ NameAddressMatches = {}
                /\ (AskedName # <<>> \/ AskedEmail # <<>>)) =>
              /\ last.ok
              /\ OneWrite(last.customer)
        /\ customers # last.customers_before =>
              /\ EmailMatches = {}
              /\ NameAddressMatches = {}
              /\ AskedName # <<>> \/ AskedEmail # <<>>

\* one record carries the email, another one the name and the address, and
\* the resolution returned the first
C18_Witness ==
    /\ last.tool = "create_customer"
    /\ EmailMatches # {}
    /\ NameAddressMatches # {}
    /\ EmailMatches \cap NameAddressMatches = {}
    /\ last.customer \in EmailMatches

\* a record matched by name and address was returned although it carries
\* another email than the one supplied
C18_WitnessNameAddress ==
    /\ last.tool = "create_customer"
    /\ AskedEmail # <<>>
    /\ EmailMatches = {}
    /\ last.customer \in NameAddressMatches
    /\ customers[last.customer].email \notin {<<>>, AskedEmail}

\* a record was created
C18_WitnessCreated ==
    /\ last.tool = "create_customer"
    /\ last.new_customers # {}
    /\ last.customers_before # <<>>


\* --------------------------------------------------------------- claim C15
\* C15: after any sequence of place_order and modify_order invocations whose
\* arguments satisfy the schema, every item of every stored order has a
\* quantity of at least 1
C15_QuantitiesPositive ==
    \A o \in DOMAIN orders : \A i \in DOMAIN orders[o].items :
        orders[o].items[i].quantity >= 1

\* an update to quantity 0 was applied to an order that held the item, after
\* earlier modifications, and the order keeps another item
C15_Witness ==
    /\ last.tool = "modify_order"
    /\ last.ok
    /\ \E u \in DOMAIN last.args.update_quantities :
          /\ last.args.update_quantities[u].quantity = 0
          /\ InList(last.orders_before[last.order].items,
                    last.args.update_quantities[u].sku)
          /\ ~InList(orders[last.order].items, last.args.update_quantities[u].sku)
    /\ \E i \in DOMAIN orders[last.order].items :
          orders[last.order].items[i].quantity > 2


\* --------------------------------------------------------------- claim C16
\* the model calls of turn t have returned so far
Returned(t) == turns[t].pc # "failed"

TurnSteps ==
    { <<"idle", "awaiting_model">>,
      <<"awaiting_model", "done">>, <<"awaiting_model", "executing">>,
      <<"awaiting_model", "failed">>,
      <<"executing", "executing">>, <<"executing", "executed">>,
      <<"executing", "aborted">>,
      <<"executed", "awaiting_summary">>, <<"executed", "done">>,
      <<"awaiting_summary", "done">>, <<"awaiting_summary", "failed">> }

\* the model's bound on the number of records stops the next invocation
AtCapacity(t) ==
    /\ turns[t].pc = "executing"
    /\ ~ENABLED ExecuteTool(t)

TurnCounts(t) ==
    /\ \A i, j \in DOMAIN turns[t].ran :
          turns[t].ran[i].id = turns[t].ran[j].id => i = j
    /\ turns[t].pc = "awaiting_summary" => turns[t].tool_errors = <<>>
    /\ (turns[t].pc = "done" /\ turns[t].tool_calls = <<>>) =>
          /\ turns[t].model_calls = 1
          /\ turns[t].ran = <<>>
    /\ (turns[t].pc = "done" /\ turns[t].tool_calls # <<>>) =>
          /\ Len(turns[t].ran) = Len(turns[t].tool_calls)
          /\ \A i \in DOMAIN turns[t].ran :
                turns[t].ran[i].id = turns[t].tool_calls[i].id
          /\ turns[t].model_calls = IF turns[t].tool_errors = <<>> THEN 2 ELSE 1
    /\ turns[t].pc = "aborted" =>
          /\ turns[t].model_calls = 1
          /\ Len(turns[t].ran) < Len(turns[t].tool_calls)
          /\ ~turns[t].tool_calls[Len(turns[t].ran) + 1].function.arguments.decodes

C17_AsStated ==
    \A t \in Turns :
        /\ Len(turns[t].submitted) >= 2 => turns[t].submitted[2].tools = {}
        /\ turns[t].final_tool_calls = <<>>


\* ---------------------------------------------------------------------------
\* C12: turns on different session ids are independent under every
\* interleaving.  A step that creates, replaces or appends to the log of a
\* session is a step of a turn of that session, and the messages a turn
\* submits to the model are entries of turns of its own session.
LogChanged(b) ==
    /\ b \in DOMAIN SESSIONS'
    /\ b \notin DOMAIN SESSIONS \/ SESSIONS'[b] # SESSIONS[b]

Acting == {t \in TurnIds : turns'[t] # turns[t]}

OwnEntry(t, m) ==
    \/ m.role \in {"system", "assistant"}
    \/ /\ m.role = "user"
       /\ \E u \in TurnIds : /\ m.content = UserMessage(u)
                             /\ turns[u].session_id = turns[t].session_id
    \/ /\ m.role = "tool"
       /\ \E u \in TurnIds : /\ turns[u].session_id = turns[t].session_id
                             /\ \E k \in 1..Len(turns[u].tool_calls) :
                                    m.tool_call_id = CallId(u, k)

ReadsOwn ==
    \A t \in TurnIds :
        \A i \in 1..Len(turns[t].submitted) :
            \A j \in 1..Len(turns[t].submitted[i].messages) :
                OwnEntry(t, turns[t].submitted[i].messages[j])

C12_Independent ==
    /\ []ReadsOwn
    /\ [][\A b \in SessionIds :
            LogChanged(b) => \A t \in Acting : turns'[t].session_id = b]_vars

\* two turns under way at once on different session ids, each with entries
\* of its own in its log
C12_Witness ==
    /\ turns[1].pc = "executed" /\ turns[2].pc = "executed"
    /\ turns[1].session_id # turns[2].session_id
    /\ Len(SESSIONS[turns[1].session_id]) = 4
    /\ Len(SESSIONS[turns[2].session_id]) = 4


\* ---------------------------------------------------------------------------
\* C13: two concurrent turns on the same session id are not mutually
\* excluded.  A request can start, append its user entry and receive the
\* model's response whatever the other request is doing, and each request a
\* turn submits is the whole of its list as it was then, the entries of other
\* turns included.  The witness is the interleaving of the claim.
SubmittedWhole ==
    \A t \in Racers :
        \A i \in 1..Len(turns[t].submitted) :
            LET n == Len(turns[t].submitted[i].messages)
            IN  /\ n <= Len(MessagesOf(t))
                /\ turns[t].submitted[i].messages =
                       sanitize_messages(SubSeq(MessagesOf(t), 1, n))

C13_NotExcluded ==
    /\ SubmittedWhole
    /\ \A t \in Racers :
        /\ turns[t].pc = "idle" => ENABLED EnsureCheck(t)
        /\ turns[t].pc = "creating" => ENABLED EnsureSet(t)
        /\ turns[t].pc = "ensured" => ENABLED AppendUser(t)
        /\ turns[t].pc = "awaiting_model" =>
               ENABLED ModelRepliesOf(t, SessionResponses)

\* the log of the session reads: first turn's user entry, second turn's user
\* entry, first turn's closing reply; and the second turn's model call was
\* given the first turn's user entry
C13_Witness ==
    \E a, b \in Racers :
        /\ a # b
        /\ turns[a].session_id = turns[b].session_id
        /\ turns[a].pc = "done" /\ turns[b].pc = "awaiting_model"
        /\ LET log == SESSIONS[turns[a].session_id]
           IN  /\ Len(log) = 4
               /\ log[2] = [role |-> "user", content |-> UserMessage(a)]
               /\ log[3] = [role |-> "user", content |-> UserMessage(b)]
               /\ log[4] = [role |-> "assistant", content |-> turns[a].reply]
        /\ \E j \in 1..Len(turns[b].submitted[1].messages) :
               turns[b].submitted[1].messages[j] =
                   [role |-> "user", content |-> UserMessage(a)]


\* ---------------------------------------------------------------------------
\* C20, as stated: under any interleaving of turns every session log has the
\* system entry first and nowhere else, and every entry once appended stays
\* in the log of its session.  Two first requests for one new session id can
\* both find it absent; the assignment of the second then replaces the list
\* that holds the entries of the first, so the statement does not hold.
SystemFirst ==
    \A b \in DOMAIN SESSIONS :
        \A i \in 1..Len(SESSIONS[b]) :
            SESSIONS[b][i].role = "system" <=> i = 1

EntriesStay ==
    \A t \in Racers :
        turns[t].model_calls >= 1 =>
            \E i \in 1..Len(SESSIONS[turns[t].session_id]) :
                SESSIONS[turns[t].session_id][i] =
                    [role |-> "user", content |-> UserMessage(t)]

C20_AsStated == SystemFirst /\ EntriesStay


\* ---------------------------------------------------------------------------
\* C19: two concurrent modify_order invocations on the same order can both
\* read the same item map before either writes.  Each write stores the order
\* its invocation read with its own delta applied, whatever is stored by
\* then; so when both have read the same order and both have returned, the
\* stored order is the result of one delta alone, and both report success.
ItemsAfter(p) ==
    ModifiedOrder(procs[p].delta.order_id, procs[p].order, procs[p].delta).items

BothReturned(p, q) ==
    /\ p # q
    /\ procs[p].pc = "done" /\ procs[q].pc = "done"
    /\ procs[p].delta.order_id = procs[q].delta.order_id
    /\ procs[p].order = procs[q].order

C19_LostUpdate ==
    /\ \A p, q \in Procs :
           BothReturned(p, q) =>
               /\ procs[p].ok /\ procs[q].ok
               /\ orders[procs[p].delta.order_id].items \in {ItemsAfter(p), ItemsAfter(q)}
    /\ [][\A p \in Procs :
             procs[p].pc = "save_order" /\ procs'[p].pc = "done" =>
                 orders'[procs[p].delta.order_id].items = ItemsAfter(p)]_vars

\* one invocation added an item, the other one set a quantity to zero; both
\* returned ok and the added item is not in the stored order
C19_Witness ==
    \E p, q \in Procs :
        /\ BothReturned(p, q)
        /\ procs[p].ok /\ procs[q].ok
        /\ procs[p].delta.add_items = <<[sku |-> "003", quantity |-> 1]>>
        /\ procs[q].delta.add_items = <<>>
        /\ procs[q].delta.update_quantities = <<[sku |-> "007", quantity |-> 0]>>
        /\ orders[procs[p].delta.order_id].items = <<>>


\* ---------------------------------------------------------------------------
\* C21: when the turns of a session do not overlap, every tool-result entry
\* of a session log comes right after an assistant entry that carries the
\* invocation with the same id, and the pairs of a turn stand in the order
\* of the model's response, after the user entry of the turn and before its
\* closing reply.
IsInvocation(m) == m.role = "assistant" /\ "tool_calls" \in DOMAIN m

IsClosing(m) == m.role = "assistant" /\ "tool_calls" \notin DOMAIN m

\* the position of the user entry of turn t in its log
UserAt(t) ==
    CHOOSE i \in 1..Len(Log(t)) :
        Log(t)[i] = [role |-> "user", content |-> UserMessage(t)]

\* the number of invocations of turn t that have been executed
Executed(t) == Len(turns[t].ran)

ResultsPaired ==
    \A b \in DOMAIN SESSIONS :
        \A i \in 1..Len(SESSIONS[b]) :
            SESSIONS[b][i].role = "tool" =>
                /\ i > 1
                /\ IsInvocation(SESSIONS[b][i - 1])
                /\ SESSIONS[b][i - 1].tool_calls[1].id = SESSIONS[b][i].tool_call_id

PairsInOrder(t) ==
    LET u == UserAt(t)
        n == Executed(t)
    IN  /\ Len(Log(t)) >= u + 2 * n
        /\ \A k \in 1..n :
               /\ Log(t)[u + 2 * k - 1] =
                      [role |-> "assistant", tool_calls |-> <<turns[t].tool_calls[k]>>,
                       content |-> <<>>]
               /\ Log(t)[u + 2 * k].role = "tool"
               /\ Log(t)[u + 2 * k].tool_call_id = turns[t].tool_calls[k].id
        /\ turns[t].pc = "done" =>
               /\ Len(Log(t)) >= u + 2 * n + 1
               /\ IsClosing(Log(t)[u + 2 * n + 1])
               /\ ReplyOf(Log(t)[u + 2 * n + 1].content) = turns[t].reply
               /\ Len(Log(t)) > u + 2 * n + 1 =>
                      Log(t)[u + 2 * n + 2].role = "user"
        /\ turns[t].pc # "done" /\ Len(Log(t)) > u + 2 * n =>
               Log(t)[u + 2 * n + 1].role = "user"

C21_Paired ==
    /\ ResultsPaired
    /\ \A t \in Turns : Started(t) => PairsInOrder(t)

\* a turn that executed two invocations and closed with a reply
C21_Witness ==
    \E t \in Turns :
        /\ turns[t].pc = "done"
        /\ Executed(t) = 2
        /\ Len(Log(t)) = UserAt(t) + 5


\* ---------------------------------------------------------------------------
\* C22: an operation that references an id with no stored record fails with
\* a not-found error and leaves the store unchanged: modify_order and
\* get_order_status on an absent order id, update_customer_address on an
\* absent customer id, place_order with an absent customer id.
AbsentOrder(l) ==
    /\ l.tool \in {"modify_order", "get_order_status"}
    /\ l.args.order_id \notin DOMAIN l.orders_before

AbsentCustomer(l) ==
    /\ l.tool = "update_customer_address"
    /\ l.args.customer_id \notin DOMAIN l.customers_before

AbsentCustomerId(l) ==
    /\ l.tool = "place_order"
    /\ l.args.customer.id # NoId
    /\ l.args.customer.id \notin DOMAIN l.customers_before

StoreUnchanged ==
    customers = last.customers_before /\ orders = last.orders_before

C22_NotFound ==
    /\ AbsentOrder(last) =>
           ~last.ok /\ last.error = <<"Order not found">> /\ StoreUnchanged
    /\ AbsentCustomer(last) =>
           ~last.ok /\ last.error = <<"Customer not found">> /\ StoreUnchanged
    /\ AbsentCustomerId(last) =>
           ~last.ok /\ last.error = <<"Customer id not found.">> /\ StoreUnchanged

\* place_order with an id that no customer has, in a store that holds a
\* customer and room for an order
C22_Witness ==
    /\ AbsentCustomerId(last)
    /\ last.args.items # <<>>
    /\ customers # <<>>
    /\ orders = <<>>

C22_WitnessModify == AbsentOrder(last) /\ last.tool = "modify_order"

C22_WitnessStatus == AbsentOrder(last) /\ last.tool = "get_order_status"

C22_WitnessAddress == AbsentCustomer(last) /\ customers # <<>>


\* ---------------------------------------------------------------------------
\* C23: an order created without a shipping address gets the address stored
\* for its customer at creation time, the empty string if there is none, and
\* not the address of the customer description of the request when the
\* customer existed already; update_customer_address changes the shipping
\* address of no order.
PlacedWithoutAddress ==
    /\ last.tool = "place_order" /\ last.ok
    /\ last.args.shipping_address = None

ExistingCustomer == last.customer \in DOMAIN last.customers_before

C23_DefaultAddress ==
    /\ PlacedWithoutAddress =>
           /\ orders[last.order].shipping_address = customers[last.customer].address
           /\ ExistingCustomer =>
                  orders[last.order].shipping_address =
                      last.customers_before[last.customer].address
    /\ last.tool = "update_customer_address" =>
           /\ DOMAIN orders = DOMAIN last.orders_before
           /\ \A o \in DOMAIN orders :
                  orders[o].shipping_address = last.orders_before[o].shipping_address

\* the customer was found by email, its stored address is not the address of
\* the description, and the order carries the stored one
C23_Witness ==
    /\ PlacedWithoutAddress
    /\ ExistingCustomer
    /\ last.args.customer.id = NoId
    /\ last.customers_before[last.customer].address # last.args.customer.address
    /\ last.customers_before[last.customer].address # <<>>
    /\ orders[last.order].shipping_address =
           last.customers_before[last.customer].address

\* the customer has no address and the order gets the empty string
C23_WitnessEmpty ==
    /\ PlacedWithoutAddress
    /\ ExistingCustomer
    /\ last.customers_before[last.customer].address = <<>>
    /\ last.args.customer.address = <<"x">>
    /\ orders[last.order].shipping_address = <<>>

\* the address of a customer changes and its order keeps the old one
C23_WitnessUpdate ==
    /\ last.tool = "update_customer_address" /\ last.ok
    /\ \E o \in DOMAIN orders :
           /\ orders[o].customer_id = last.customer
           /\ orders[o].shipping_address # customers[last.customer].address
           /\ orders[o].shipping_address =
                  last.customers_before[last.customer].address


\* ---------------------------------------------------------------------------
\* C24: absent concurrent access, after any sequence of create_customer,
\* place_order, modify_order, update_customer_address and get_order_status
\* invocations no two stored customer records have the same non-empty
\* normalized email.
NormEmail(c) == Lower(Strip(OrEmpty(customers[c].email)))

C24_UniqueEmails ==
    \A c, d \in DOMAIN customers :
        c # d /\ NormEmail(c) # <<>> => NormEmail(c) # NormEmail(d)

\* a resolution by an email that a stored customer has, written another way,
\* in a store with room for a new record: the customer is found, none is
\* created
C24_Witness ==
    /\ last.tool \in {"create_customer", "place_order"}
    /\ ResolutionEmail(last) # <<>>
    /\ last.customer \in DOMAIN last.customers_before
    /\ last.customers_before[last.customer].email = ResolutionEmail(last)
    /\ NewCustId(last.customers_before) # NoId
    /\ last.new_customers = {}
    /\ prev.tool \in {"create_customer", "place_order"}
    /\ prev.customer = last.customer


\* ---------------------------------------------------------------------------
\* C25, as stated: a place_order invocation that reports failure leaves the
\* store unchanged.  tool_place_order resolves the customer, creating it when
\* no record matches, before create_order looks at the item list, so the
\* statement does not hold.
C25_AsStated ==
    last.tool = "place_order" /\ ~last.ok =>
        customers = last.customers_before /\ orders = last.orders_before


\* ---------------------------------------------------------------------------
\* C26, as stated: a failed tool invocation does not stop or undo the rest of
\* the turn: every invocation of the model response is executed even after
\* an earlier one failed, what the successful ones wrote stays in the store,
\* and the reply reports the failures alone.  An invocation with an
\* undecodable payload that follows a failed one ends the turn before it and
\* the ones after it are executed, so the statement does not hold.
LastOfTurns(t) == \A u \in Turns : u > t => turns[u].pc = "idle"

Persisted(t) ==
    LastOfTurns(t) /\ turns[t].ran # <<>> =>
        LET left == turns[t].ran[Len(turns[t].ran)].left
        IN  customers = left.customers /\ orders = left.orders

C26_AsStated ==
    \A t \in Turns :
        Ended(t) /\ turns[t].tool_errors # <<>> =>
            /\ Executed(t) = Len(turns[t].tool_calls)
            /\ turns[t].reply = ErrorText(turns[t].tool_errors)
            /\ Persisted(t)

\* what holds of the code: a turn that decodes every payload executes every
\* invocation whatever the earlier ones reported, keeps what they wrote and
\* replies with the failures alone; a turn cut short keeps what it wrote
C26_RunToEnd ==
    \A t \in Turns :
        /\ turns[t].pc = "done" /\ turns[t].tool_errors # <<>> =>
               /\ Executed(t) = Len(turns[t].tool_calls)
               /\ turns[t].reply = ErrorText(turns[t].tool_errors)
        /\ Started(t) => Persisted(t)

\* an order was placed, the next invocation failed, and the reply names the
\* failure alone while the order is in the store
C26_RunToEndWitness ==
    \E t \in Turns :
        /\ turns[t].pc = "done"
        /\ Executed(t) = 2
        /\ Len(turns[t].tool_errors) = 1
        /\ turns[t].tool_calls[1].function.name = "place_order"
        /\ orders # <<>>

=============================================================================
